---- MODULE Spec2Model ----
(***************************************************************************)
(* markov::chain (src/include/chain.hh, src/src/chain.cc): a word-level    *)
(* Markov chain.  The chain is a std::map from prefix (a deque of strings) *)
(* to the vector of words seen after it, plus the sliding window           *)
(* current_prefix, the prefix length prefix_len and the class-wide flag    *)
(* is_seeded.                                                              *)
(*                                                                         *)
(* A std::string is a sequence of one-character strings, a prefix is a     *)
(* sequence of std::strings, the map is a function whose domain is its set *)
(* of keys.                                                                *)
(***************************************************************************)
EXTENDS Integers, Sequences, FiniteSets, TLC

VARIABLES
  mapping,         \* the std::map base object: prefix -> vector of successors
  current_prefix,  \* chain::current_prefix
  prefix_len,      \* chain::prefix_len
  is_seeded,       \* chain::is_seeded (static)
  status,          \* "running", "killed" (signal) or "undefined" (after undefined behaviour)
  op,              \* the last call: its name, arguments and how it ended
  out,             \* what the last call wrote to its stream or returned
  stream,          \* the tokens passed to add since construction (training runs)
  pc               \* the statement a call in progress is at; "idle" between calls

vars == <<mapping, current_prefix, prefix_len, is_seeded, status, op, out, stream, pc>>

----------------------------------------------------------------------------
(* Bounds of the model *)

MaxLen == 1        \* operation machine: lengths 1..MaxLen at construction, 0..MaxLen in prefixLength(len)
MaxSucc == 2       \* operation machine: add stops when the map holds MaxSucc successors
MaxWords == 1      \* operation machine: nwords of generate ranges over 0..MaxWords
MaxRand == 1       \* operation machine: random() returns a value in 0..MaxRand-1
MaxTrainLen == 2   \* training runs: lengths 1..MaxTrainLen at construction
MaxTrain == 5      \* training runs: tokens fed to the freshly constructed chain
MaxGenWords == 3   \* generation runs: nwords ranges over 0..MaxGenWords
MaxGenRand == 2    \* generation runs: random() returns a value in 0..MaxGenRand-1
MaxPick == 5       \* generation runs: random() in randomPrefix() called alone, 0..MaxPick-1

\* std::string values used as words
W(c) == <<c>>
Tokens == {W("a"), W(":")}

----------------------------------------------------------------------------
(* std::string and std::deque<std::string> *)

npos == -1

Min(a, b) == IF a < b THEN a ELSE b

\* the character codes that decide std::string's operator<
CharCode(c) ==
  CASE c = "\n" -> 10
    [] c = " " -> 32
    [] c = ":" -> 58
    [] c = "a" -> 97

\* std::string::substr(pos): the rest of s from the 0-based position pos
substr(s, pos) == SubSeq(s, pos + 1, Len(s))

\* std::string::substr(pos, n); n = npos takes the rest
substrN(s, pos, n) ==
  IF n = npos THEN substr(s, pos) ELSE SubSeq(s, pos + 1, Min(pos + n, Len(s)))

\* std::string::find(pat): 0-based position of the first occurrence, or npos
find(s, pat) ==
  LET hits == {i \in 0..(Len(s) - Len(pat)) : SubSeq(s, i + 1, i + Len(pat)) = pat}
  IN  IF hits = {} THEN npos ELSE CHOOSE i \in hits : \A j \in hits : i <= j

\* operator< of std::string: lexicographic by character
RECURSIVE StringLess(_, _)
StringLess(s, t) ==
  IF t = <<>> THEN FALSE
  ELSE IF s = <<>> THEN TRUE
  ELSE IF CharCode(Head(s)) # CharCode(Head(t)) THEN CharCode(Head(s)) < CharCode(Head(t))
  ELSE StringLess(Tail(s), Tail(t))

\* operator< of std::deque<std::string>: lexicographic by element; the order of the map
RECURSIVE PrefixLess(_, _)
PrefixLess(p, q) ==
  IF q = <<>> THEN FALSE
  ELSE IF p = <<>> THEN TRUE
  ELSE IF Head(p) # Head(q) THEN StringLess(Head(p), Head(q))
  ELSE PrefixLess(Tail(p), Tail(q))

\* the keys of a map in iteration order (begin() .. end())
RECURSIVE KeysInOrder(_)
KeysInOrder(keys) ==
  IF keys = {} THEN <<>>
  ELSE LET first == CHOOSE k \in keys : \A j \in keys \ {k} : PrefixLess(k, j)
       IN  <<first>> \o KeysInOrder(keys \ {first})

RECURSIVE Concat(_)
Concat(ss) == IF ss = <<>> THEN <<>> ELSE Head(ss) \o Concat(Tail(ss))

----------------------------------------------------------------------------
(* The chain object as a value: [map, cur, len] *)

EmptyMap == [k \in {} |-> <<>>]

Chain(m, c, l) == [map |-> m, cur |-> c, len |-> l]

This == Chain(mapping, current_prefix, prefix_len)

\* (*this)[key].push_back(s): operator[] creates the entry when it is absent
PushBack(m, key, s) ==
  IF key \in DOMAIN m
  THEN [m EXCEPT ![key] = Append(@, s)]
  ELSE [k \in DOMAIN m \cup {key} |-> IF k = key THEN <<s>> ELSE m[k]]

\* (*this)[key]: operator[] alone, creating an empty vector when the key is absent
Subscript(m, key) ==
  IF key \in DOMAIN m THEN m
  ELSE [k \in DOMAIN m \cup {key} |-> IF k = key THEN <<>> ELSE m[k]]

\* chain::isValidPrefix
isValidPrefix(m, pref) == pref \in DOMAIN m

\* a plausible slip: the window is never slid, the front token is kept
addNoPop(c, s) ==
  IF Len(c.cur) = c.len
  THEN Chain(PushBack(c.map, c.cur, s), Append(c.cur, s), c.len)
  ELSE Chain(c.map, Append(c.cur, s), c.len)

\* a plausible slip: the successor is recorded after the window has slid
addSlideFirst(c, s) ==
  IF Len(c.cur) = c.len
  THEN Chain(PushBack(c.map, Append(Tail(c.cur), s), s), Append(Tail(c.cur), s), c.len)
  ELSE Chain(c.map, Append(c.cur, s), c.len)

\* chain::add(const std::string&) where pop_front is defined (the window is not empty)
add(c, s) ==
  IF Len(c.cur) = c.len
  THEN Chain(PushBack(c.map, c.cur, s), Append(Tail(c.cur), s), c.len)
  ELSE Chain(c.map, Append(c.cur, s), c.len)

\* add pops the front of an empty deque exactly when the window is "full" at length 0
addUndefined(c) == Len(c.cur) = c.len /\ c.len = 0

----------------------------------------------------------------------------
(* Streams *)

IsSpace(ch) == ch = " " \/ ch = "\n"

\* characters of s from its first non-whitespace character on
RECURSIVE SkipSpace(_)
SkipSpace(s) == IF s # <<>> /\ IsSpace(Head(s)) THEN SkipSpace(Tail(s)) ELSE s

\* length of the leading run of non-whitespace characters
RECURSIVE WordLen(_)
WordLen(s) == IF s = <<>> \/ IsSpace(Head(s)) THEN 0 ELSE 1 + WordLen(Tail(s))

\* while (in >> buf): the whitespace-delimited words of the stream, in order
RECURSIVE extract(_)
extract(s) ==
  LET t == SkipSpace(s)
      n == WordLen(t)
  IN  IF n = 0 THEN <<>> ELSE <<SubSeq(t, 1, n)>> \o extract(substr(t, n))

\* chain::add(std::istream&, bool) on a chain where every pop_front is defined
RECURSIVE addAll(_, _)
addAll(c, words) == IF words = <<>> THEN c ELSE addAll(add(c, Head(words)), Tail(words))

addStream(c, s, resetprefix) ==
  addAll(IF resetprefix THEN Chain(c.map, <<>>, c.len) ELSE c, extract(s))

\* the do-while loops of parseLine: split at every single space, empty pieces kept
RECURSIVE split(_)
split(pstr) ==
  LET spos == find(pstr, <<" ">>)
  IN  IF spos = npos THEN <<pstr>>
      ELSE <<substrN(pstr, 0, spos)>> \o split(substr(pstr, spos + 1))

RECURSIVE pushAll(_, _, _)
pushAll(m, key, words) ==
  IF words = <<>> THEN m ELSE pushAll(PushBack(m, key, Head(words)), key, Tail(words))

\* a plausible slip: the token count of the line's prefix is not compared with prefix_len
parseLineAnyLength(c, line) ==
  LET cpos == find(line, <<" ", ":", " ">>)
      temp == split(substrN(line, 0, cpos))
      len  == IF c.len = 0 THEN Len(temp) ELSE c.len
  IN  IF cpos = npos THEN c
      ELSE Chain(pushAll(c.map, temp, split(substr(line, cpos + 3))), temp, len)

\* a plausible slip: the window is set to the line's prefix before its length is checked
parseLineCursorFirst(c, line) ==
  LET cpos == find(line, <<" ", ":", " ">>)
      temp == split(substrN(line, 0, cpos))
      len  == IF c.len = 0 THEN Len(temp) ELSE c.len
  IN  IF cpos = npos THEN c
      ELSE IF Len(temp) = len
           THEN Chain(pushAll(c.map, temp, split(substr(line, cpos + 3))), temp, len)
           ELSE Chain(c.map, temp, len)

\* chain::parseLine: the chain after the line
parseLine(c, line) ==
  LET cpos == find(line, <<" ", ":", " ">>)
      temp == split(substrN(line, 0, cpos))
      len  == IF c.len = 0 THEN Len(temp) ELSE c.len
  IN  IF cpos = npos THEN c
      ELSE IF Len(temp) = len
           THEN Chain(pushAll(c.map, temp, split(substr(line, cpos + 3))), temp, len)
           ELSE Chain(c.map, c.cur, len)

\* the loop of chain::read: getline, and parseLine only while the stream is still good
\* after it, which it is not once getline has met the end of the stream
RECURSIVE readLoop(_, _)
readLoop(c, s) ==
  LET nl == find(s, <<"\n">>)
  IN  IF nl = npos THEN c
      ELSE readLoop(parseLine(c, substrN(s, 0, nl)), substr(s, nl + 1))

\* a plausible slip: the prefix length of the chain is kept when the chain is cleared
readKeepLength(s) == readLoop(Chain(EmptyMap, <<>>, prefix_len), s)

\* chain::read: clear the map and the window, prefix_len = 0, then the loop
read(s) == readLoop(Chain(EmptyMap, <<>>, 0), s)

\* the inner loops of chain::write
RECURSIVE writePrefix(_)
writePrefix(pref) ==
  IF pref = <<>> THEN <<>> ELSE Head(pref) \o <<" ">> \o writePrefix(Tail(pref))

RECURSIVE writeSuffix(_)
writeSuffix(suf) ==
  IF suf = <<>> THEN <<>>
  ELSE Head(suf) \o (IF Tail(suf) = <<>> THEN <<"\n">> ELSE <<" ">>) \o writeSuffix(Tail(suf))

\* a plausible slip: the last line is left without its line break
writeNoFinalBreak(m) ==
  LET keys == KeysInOrder(DOMAIN m)
      text == Concat([i \in 1..Len(keys) |->
                writePrefix(keys[i]) \o <<":", " ">> \o writeSuffix(m[keys[i]])])
  IN  IF text = <<>> THEN text ELSE SubSeq(text, 1, Len(text) - 1)

\* chain::write: one line per entry, in the order of the map
write(m) ==
  LET keys == KeysInOrder(DOMAIN m)
  IN  Concat([i \in 1..Len(keys) |->
        writePrefix(keys[i]) \o <<":", " ">> \o writeSuffix(m[keys[i]])])

----------------------------------------------------------------------------
(* Random prefix and generation, on a map that is not empty *)

\* the loop of chain::randomPrefix: for (it = begin(); it != end() && j <= i; it++, j++)
\* pref = it->first, with it at the position pos of keys
RECURSIVE randomPrefixLoop(_, _, _, _, _)
randomPrefixLoop(keys, pos, i, j, pref) ==
  IF pos <= Len(keys) /\ j <= i
  THEN randomPrefixLoop(keys, pos + 1, i, j + 1, keys[pos])
  ELSE pref

\* a plausible slip: a value beyond the last index is cut to the last index, not wrapped
randomPrefixClamped(m, r) ==
  LET i == Min(r, Cardinality(DOMAIN m) - 1)
  IN  randomPrefixLoop(KeysInOrder(DOMAIN m), 1, i, 0, <<>>)

\* chain::randomPrefix with random() = r
randomPrefix(m, r) ==
  LET i == r % Cardinality(DOMAIN m)
  IN  randomPrefixLoop(KeysInOrder(DOMAIN m), 1, i, 0, <<>>)

\* a plausible slip: the loop does not stop at a candidate that is no key, it goes on
\* from the window it has
RECURSIVE walkNoBreak(_, _, _, _, _, _, _)
walkNoBreak(m, cur, i, nwords, rs, k, emitted) ==
  IF i < nwords
  THEN LET m1   == Subscript(m, cur)
           suf  == m1[cur]
           w    == suf[(rs[k + 1] % Len(suf)) + 1]
           pref == Append(Tail(cur), w)
       IN  walkNoBreak(m1, IF isValidPrefix(m1, pref) THEN pref ELSE cur,
                       i + 1, nwords, rs, k + 1, Append(emitted, w))
  ELSE [map |-> m, cur |-> cur, out |-> emitted, draws |-> k]

\* a plausible slip: the candidate is looked up with operator[], which creates its entry
RECURSIVE walkSubscriptLookup(_, _, _, _, _, _, _)
walkSubscriptLookup(m, cur, i, nwords, rs, k, emitted) ==
  IF i < nwords
  THEN LET m1   == Subscript(m, cur)
           suf  == m1[cur]
           w    == suf[(rs[k + 1] % Len(suf)) + 1]
           pref == Append(Tail(cur), w)
           m2   == Subscript(m1, pref)
       IN  IF isValidPrefix(m1, pref)
           THEN walkSubscriptLookup(m2, pref, i + 1, nwords, rs, k + 1, Append(emitted, w))
           ELSE [map |-> m2, cur |-> cur, out |-> Append(emitted, w), draws |-> k + 1]
  ELSE [map |-> m, cur |-> cur, out |-> emitted, draws |-> k]

\* the second loop of chain::generate from word count i, k draws of rs used so far:
\* suf is (*this)[current_prefix], the word is suf[random() % suf.size()], and the
\* window moves to the candidate only if the candidate is a key
RECURSIVE walk(_, _, _, _, _, _, _)
walk(m, cur, i, nwords, rs, k, emitted) ==
  IF i < nwords
  THEN LET m1   == Subscript(m, cur)
           suf  == m1[cur]
           w    == suf[(rs[k + 1] % Len(suf)) + 1]
           pref == Append(Tail(cur), w)
       IN  IF isValidPrefix(m1, pref)
           THEN walk(m1, pref, i + 1, nwords, rs, k + 1, Append(emitted, w))
           ELSE [map |-> m1, cur |-> cur, out |-> Append(emitted, w), draws |-> k + 1]
  ELSE [map |-> m, cur |-> cur, out |-> emitted, draws |-> k]

\* a plausible slip: a prefix that is no key is replaced by the first key of the map,
\* without a draw
generateFirstKey(c, nwords, pref, rs) ==
  LET start == IF isValidPrefix(c.map, pref) THEN pref ELSE KeysInOrder(DOMAIN c.map)[1]
  IN  walk(c.map, start, c.len, nwords, rs, 0, [i \in 1..c.len |-> start[i]])

\* chain::generate(std::ostream&, std::size_t, prefix): the map and the cursor it ends
\* with, the words it writes and the number of values of rs it draws
generate(c, nwords, pref, rs) ==
  LET valid == isValidPrefix(c.map, pref)
      start == IF valid THEN pref ELSE randomPrefix(c.map, rs[1])
  IN  walk(c.map, start, c.len, nwords, rs, IF valid THEN 0 ELSE 1,
           [i \in 1..c.len |-> start[i]])

\* chain::generate(std::ostream&, std::size_t): a random start, then the explicit form
generateRandom(c, nwords, rs) ==
  LET start == randomPrefix(c.map, rs[1])
      r     == generate(c, nwords, start, Tail(rs))
  IN  [r EXCEPT !.draws = @ + 1]

----------------------------------------------------------------------------
(* Inputs *)

\* prefixes handed to generate, currentPrefix and isValidPrefix: every key of the map,
\* and two more, of which the empty one is no key of a chain that has not failed
Prefixes == DOMAIN mapping \cup {<<>>, <<W("a")>>}

\* the values random() returns during one call that draws at most n times, in order,
\* each below bound
Draws(n, bound) == [1..n -> 0..(bound - 1)]

\* the most draws one generate call can make: one for the start unless it is given and
\* valid, and one per word after the first prefix_len words
MaxDraws(nwords, pref) ==
  (IF isValidPrefix(mapping, pref) THEN 0 ELSE 1)
    + (IF nwords > prefix_len THEN nwords - prefix_len ELSE 0)

\* text of a stream: the words joined by single spaces
RECURSIVE Text(_)
Text(words) ==
  IF words = <<>> THEN <<>>
  ELSE IF Tail(words) = <<>> THEN Head(words)
  ELSE Head(words) \o <<" ">> \o Text(Tail(words))

A == W("a")
Colon == W(":")
NL == <<"\n">>

\* streams handed to add(std::istream&, bool)
AddInputs ==
  { <<>>, Text(<<A, Colon>>), A \o <<" ", "\n", " ">> \o A \o NL }

\* streams handed to read, besides what write produced
ReadInputs ==
  { <<>>,
    Text(<<A, Colon, A>>) \o NL,
    Text(<<A, Colon, A>>),
    Text(<<A, A, Colon, A>>) \o NL \o Text(<<A, A, Colon, Colon>>) \o NL,
    Text(<<A, Colon, A>>) \o NL \o Text(<<A, A, Colon, A>>) \o NL,
    A \o NL \o Text(<<A, A, Colon, A>>) \o NL \o Text(<<Colon, A, Colon, A>>),
    A \o NL \o Text(<<A, A, Colon, A>>) \o NL \o Text(<<A, Colon, A>>) \o NL
      \o Text(<<Colon, A, Colon, A>>) \o NL }

\* number of successors the map holds
RECURSIVE Held(_, _)
Held(m, keys) ==
  IF keys = {} THEN 0
  ELSE LET k == CHOOSE x \in keys : TRUE IN Len(m[k]) + Held(m, keys \ {k})

Size(m) == Held(m, DOMAIN m)

----------------------------------------------------------------------------
(* The operations *)

\* record of a call: its name, its arguments (nwords, the stream input, arg for the one
\* argument of seed and prefixLength and for the value random() gave randomPrefix),
\* whether the prefix passed was a key, whether the map was empty when it began, and
\* res: "returned", or how the call ended otherwise
Call(name) ==
  [name |-> name, nwords |-> 0, valid |-> FALSE, input |-> <<>>, arg |-> 0,
   empty |-> (DOMAIN mapping = {}), res |-> "returned"]

Running == status = "running"

\* chain::chain(len) with len in 1..maxlen: an empty map, an empty window, nothing seeded
Construct(maxlen) ==
  /\ mapping = EmptyMap
  /\ current_prefix = <<>>
  /\ prefix_len \in 1..maxlen
  /\ is_seeded = FALSE
  /\ status = "running"
  /\ op = [name |-> "chain", nwords |-> 0, valid |-> FALSE, input |-> <<>>, arg |-> 0,
           empty |-> TRUE, res |-> "returned"]
  /\ out = <<>>
  /\ stream = <<>>
  /\ pc = "idle"

\* add where the window is "full" at length 0: the entry is pushed, then pop_front runs on
\* an empty deque.  The call is killed, or goes on with the deque's size wrapped (empty
\* after the push_back) or with the pop having done nothing (s alone after the push_back)
AddOnEmptyWindow(c, s) ==
  /\ mapping' = PushBack(c.map, c.cur, s)
  /\ \/ status' = "killed" /\ current_prefix' = c.cur
     \/ status' = "undefined" /\ current_prefix' \in {<<>>, <<s>>}

\* chain::add(const std::string& s)
Add(s) ==
  /\ Running
  /\ op' = Call("add")
  /\ out' = <<>>
  /\ IF addUndefined(This)
     THEN AddOnEmptyWindow(This, s)
     ELSE /\ mapping' = add(This, s).map
          /\ current_prefix' = add(This, s).cur
          /\ status' = status
  /\ UNCHANGED <<prefix_len, is_seeded>>

\* chain::add(std::istream& in, bool resetprefix)
AddStream(in, resetprefix) ==
  LET c0    == IF resetprefix THEN Chain(mapping, <<>>, prefix_len) ELSE This
      words == extract(in)
  IN  /\ Running
      /\ op' = [Call("addStream") EXCEPT !.input = in,
                                        !.res = IF resetprefix THEN "reset" ELSE "returned"]
      /\ out' = <<>>
      /\ IF words # <<>> /\ addUndefined(c0)
         THEN AddOnEmptyWindow(c0, Head(words))
         ELSE /\ mapping' = addStream(This, in, resetprefix).map
              /\ current_prefix' = addStream(This, in, resetprefix).cur
              /\ status' = status
      /\ UNCHANGED <<prefix_len, is_seeded>>

\* randomPrefix on an empty map: seed(), then random() % 0.  The division traps (SIGFPE),
\* or it yields some index and the loop over the empty map returns the empty prefix
RandomPrefixOnEmpty ==
  /\ is_seeded' = TRUE
  /\ out' = <<>>
  /\ status' \in {"killed", "undefined"}
  /\ op' = Call("randomPrefix")
  /\ UNCHANGED <<mapping, current_prefix, prefix_len>>

\* chain::randomPrefix()
RandomPrefix(r) ==
  /\ Running
  /\ IF DOMAIN mapping = {}
     THEN RandomPrefixOnEmpty
     ELSE /\ is_seeded' = TRUE
          /\ out' = randomPrefix(mapping, r)
          /\ op' = [Call("randomPrefix") EXCEPT !.arg = r]
          /\ UNCHANGED <<mapping, current_prefix, prefix_len, status>>

\* generate on an empty map: no prefix is valid, so randomPrefix runs first (above).  If
\* the division does not trap, the window becomes the empty prefix; at(0) then throws
\* std::out_of_range when prefix_len > 0; with prefix_len = 0 and nwords > 0 the second
\* loop creates the entry of the empty prefix by (*this)[current_prefix] and indexes its
\* empty vector with random() % 0
GenerateOnEmpty(name, nwords, pref) ==
  /\ is_seeded' = TRUE
  /\ out' = <<>>
  /\ UNCHANGED prefix_len
  /\ \/ /\ status' = "killed"
        /\ op' = [Call(name) EXCEPT !.nwords = nwords]
        /\ UNCHANGED <<mapping, current_prefix>>
     \/ /\ current_prefix' = <<>>
        /\ IF prefix_len > 0
           THEN /\ status' = "undefined"
                /\ op' = [Call(name) EXCEPT !.nwords = nwords, !.res = "out_of_range"]
                /\ UNCHANGED mapping
           ELSE /\ op' = [Call(name) EXCEPT !.nwords = nwords]
                /\ IF nwords > 0
                   THEN /\ mapping' = Subscript(mapping, <<>>)
                        /\ (status' = "undefined" \/ status' = "killed")
                   ELSE /\ status' = "undefined"
                        /\ UNCHANGED mapping

\* chain::generate(std::ostream& s, std::size_t nwords, prefix pref), random() giving rs
Generate(nwords, pref, rs) ==
  /\ Running
  /\ IF DOMAIN mapping = {}
     THEN GenerateOnEmpty("generate", nwords, pref)
     ELSE LET r == generate(This, nwords, pref, rs)
          IN  /\ mapping' = r.map
              /\ current_prefix' = r.cur
              /\ out' = r.out
              /\ is_seeded' = TRUE
              /\ op' = [Call("generate") EXCEPT !.nwords = nwords,
                                               !.valid = isValidPrefix(mapping, pref)]
              /\ UNCHANGED <<prefix_len, status>>

\* chain::generate(std::ostream& s, std::size_t nwords), random() giving rs
GenerateRandom(nwords, rs) ==
  /\ Running
  /\ IF DOMAIN mapping = {}
     THEN GenerateOnEmpty("generateRandom", nwords, <<>>)
     ELSE LET r == generateRandom(This, nwords, rs)
          IN  /\ mapping' = r.map
              /\ current_prefix' = r.cur
              /\ out' = r.out
              /\ is_seeded' = TRUE
              /\ op' = [Call("generateRandom") EXCEPT !.nwords = nwords]
              /\ UNCHANGED <<prefix_len, status>>

\* chain::write(std::ostream& s)
Write ==
  /\ Running
  /\ out' = write(mapping)
  /\ op' = Call("write")
  /\ UNCHANGED <<mapping, current_prefix, prefix_len, is_seeded, status>>

\* chain::read(std::istream& s)
Read(s) ==
  /\ Running
  /\ mapping' = read(s).map
  /\ current_prefix' = read(s).cur
  /\ prefix_len' = read(s).len
  /\ op' = [Call("read") EXCEPT !.input = s]
  /\ out' = <<>>
  /\ UNCHANGED <<is_seeded, status>>

\* chain::currentPrefix()
CurrentPrefix ==
  /\ Running
  /\ out' = current_prefix
  /\ op' = Call("currentPrefix")
  /\ UNCHANGED <<mapping, current_prefix, prefix_len, is_seeded, status>>

\* chain::currentPrefix(prefix pref)
CurrentPrefixSet(pref) ==
  /\ Running
  /\ current_prefix' = IF isValidPrefix(mapping, pref) THEN pref ELSE current_prefix
  /\ out' = current_prefix'
  /\ op' = [Call("currentPrefixSet") EXCEPT !.valid = isValidPrefix(mapping, pref)]
  /\ UNCHANGED <<mapping, prefix_len, is_seeded, status>>

\* chain::isValidPrefix(prefix pref)
IsValidPrefix(pref) ==
  /\ Running
  /\ out' = <<isValidPrefix(mapping, pref)>>
  /\ op' = Call("isValidPrefix")
  /\ UNCHANGED <<mapping, current_prefix, prefix_len, is_seeded, status>>

\* chain::prefixLength()
PrefixLengthGet ==
  /\ Running
  /\ out' = <<prefix_len>>
  /\ op' = Call("prefixLength")
  /\ UNCHANGED <<mapping, current_prefix, prefix_len, is_seeded, status>>

\* a plausible slip: the window is left as it was
PrefixLengthKeepsWindow(len) ==
  /\ Running
  /\ mapping' = EmptyMap
  /\ prefix_len' = len
  /\ out' = <<prefix_len'>>
  /\ op' = [Call("prefixLengthSet") EXCEPT !.arg = len]
  /\ UNCHANGED <<current_prefix, is_seeded, status>>

\* chain::prefixLength(std::size_t len)
PrefixLength(len) ==
  /\ Running
  /\ mapping' = EmptyMap
  /\ current_prefix' = <<>>
  /\ prefix_len' = len
  /\ out' = <<prefix_len'>>
  /\ op' = [Call("prefixLengthSet") EXCEPT !.arg = len]
  /\ UNCHANGED <<is_seeded, status>>

\* chain::isSeeded()
IsSeeded ==
  /\ Running
  /\ out' = <<is_seeded>>
  /\ op' = Call("isSeeded")
  /\ UNCHANGED <<mapping, current_prefix, prefix_len, is_seeded, status>>

\* a plausible slip: force is ignored, the generator is seeded once
reseedsOnce(force, seeded) == ~seeded

\* the test of chain::seed: srandom is called if force is set or nothing is seeded yet
reseeds(force, seeded) == force \/ ~seeded

\* chain::seed(bool force): res tells whether srandom was called
Seed(force) ==
  /\ Running
  /\ is_seeded' = (IF reseeds(force, is_seeded) THEN TRUE ELSE is_seeded)
  /\ out' = <<>>
  /\ op' = [Call("seed") EXCEPT !.arg = force,
                                !.res = IF reseeds(force, is_seeded) THEN "srandom"
                                                                     ELSE "returned"]
  /\ UNCHANGED <<mapping, current_prefix, prefix_len, status>>

----------------------------------------------------------------------------
(* The operation machine: any sequence of calls on one chain *)

Init == Construct(MaxLen)

Next ==
  \/ \E s \in Tokens : Add(s) /\ Size(mapping') <= MaxSucc /\ UNCHANGED <<stream, pc>>
  \/ \E in \in AddInputs, resetprefix \in BOOLEAN :
       AddStream(in, resetprefix) /\ Size(mapping') <= MaxSucc /\ UNCHANGED <<stream, pc>>
  \/ \E nwords \in 0..MaxWords, pref \in Prefixes :
       \E rs \in Draws(MaxDraws(nwords, pref), MaxRand) :
         Generate(nwords, pref, rs) /\ UNCHANGED <<stream, pc>>
  \/ \E nwords \in 0..MaxWords : \E rs \in Draws(MaxDraws(nwords, <<>>), MaxRand) :
       GenerateRandom(nwords, rs) /\ UNCHANGED <<stream, pc>>
  \/ Write /\ UNCHANGED <<stream, pc>>
  \/ \E s \in ReadInputs \cup {write(mapping)} : Read(s) /\ UNCHANGED <<stream, pc>>
  \/ \E pref \in Prefixes : CurrentPrefixSet(pref) /\ UNCHANGED <<stream, pc>>
  \/ \E r \in 0..(MaxRand - 1) : RandomPrefix(r) /\ UNCHANGED <<stream, pc>>
  \/ \E len \in 0..MaxLen : PrefixLength(len) /\ UNCHANGED <<stream, pc>>
  \/ \E force \in BOOLEAN : Seed(force) /\ UNCHANGED <<stream, pc>>

Spec == Init /\ [][Next]_vars

(* Training runs: tokens fed one by one to a freshly constructed chain *)

TrainInit == Construct(MaxTrainLen)

Train(s) ==
  /\ Len(stream) < MaxTrain
  /\ Add(s)
  /\ stream' = Append(stream, s)
  /\ UNCHANGED pc

TrainNext == \E s \in Tokens : Train(s)

SpecTrain == TrainInit /\ [][TrainNext]_vars

(* File runs: a trained chain is written, and what was written is read back *)

ReadBack ==
  /\ op.name = "write"
  /\ Read(out)
  /\ UNCHANGED <<stream, pc>>

FileNext ==
  \/ \E s \in Tokens : op.name \in {"chain", "add"} /\ Train(s)
  \/ Write /\ UNCHANGED <<stream, pc>>
  \/ ReadBack

SpecFile == TrainInit /\ [][FileNext]_vars

(* Generation runs: one generation call on a trained chain *)

Trained == op.name \in {"chain", "add"}

GenNext ==
  \/ \E s \in Tokens : Trained /\ Train(s)
  \/ \E nwords \in 0..MaxGenWords, pref \in Prefixes :
       \E rs \in Draws(MaxDraws(nwords, pref), MaxGenRand) :
         Trained /\ Generate(nwords, pref, rs) /\ UNCHANGED <<stream, pc>>
  \/ \E nwords \in 0..MaxGenWords : \E rs \in Draws(MaxDraws(nwords, <<>>), MaxGenRand) :
       Trained /\ GenerateRandom(nwords, rs) /\ UNCHANGED <<stream, pc>>
  \/ \E r \in 0..(MaxPick - 1) : Trained /\ RandomPrefix(r) /\ UNCHANGED <<stream, pc>>

SpecGen == TrainInit /\ [][GenNext]_vars

(* Seeding runs: one call of generate or randomPrefix on a trained chain, statement by
   statement, so that the order of seed() and random() inside the call shows.  pc names
   the function and the line of chain.cc the call is at. *)

AtRest == pc = "idle" /\ op.name \in {"chain", "add", "seed"}

\* generate(s, nwords, pref), lines 63-66: a valid prefix becomes the window, otherwise
\* randomPrefix is called
BeginGenerate(nwords, pref) ==
  /\ Running /\ AtRest
  /\ op' = [Call("generate") EXCEPT !.nwords = nwords,
                                   !.valid = isValidPrefix(mapping, pref)]
  /\ out' = <<>>
  /\ IF isValidPrefix(mapping, pref)
     THEN current_prefix' = pref /\ pc' = "generate68"
     ELSE current_prefix' = current_prefix /\ pc' = "randomPrefix179"
  /\ UNCHANGED <<mapping, prefix_len, is_seeded, status, stream>>

\* generate(s, nwords), line 94: randomPrefix is called for the start
BeginGenerateRandom(nwords) ==
  /\ Running /\ AtRest
  /\ op' = [Call("generateRandom") EXCEPT !.nwords = nwords]
  /\ out' = <<>>
  /\ pc' = "randomPrefix179"
  /\ UNCHANGED <<mapping, current_prefix, prefix_len, is_seeded, status, stream>>

\* randomPrefix() called by the user
BeginRandomPrefix ==
  /\ Running /\ AtRest
  /\ op' = Call("randomPrefix")
  /\ out' = <<>>
  /\ pc' = "randomPrefix179"
  /\ UNCHANGED <<mapping, current_prefix, prefix_len, is_seeded, status, stream>>

\* randomPrefix, lines 179-180: if (!is_seeded) seed()
RandomPrefixSeeds ==
  /\ Running /\ pc = "randomPrefix179"
  /\ is_seeded' = TRUE
  /\ pc' = "randomPrefix182"
  /\ UNCHANGED <<mapping, current_prefix, prefix_len, status, op, out, stream>>

\* randomPrefix, lines 182-188: random() gives r; the key found is returned to the user,
\* or to generate, which makes it the window (line 66, or lines 94-95 and 63-64).  On an
\* empty map the division by size() = 0 is undefined
RandomPrefixDraws(r) ==
  /\ Running /\ pc = "randomPrefix182"
  /\ IF DOMAIN mapping = {}
     THEN /\ status' \in {"killed", "undefined"}
          /\ pc' = "idle"
          /\ UNCHANGED <<current_prefix, out>>
     ELSE /\ status' = status
          /\ IF op.name = "randomPrefix"
             THEN /\ out' = randomPrefix(mapping, r)
                  /\ pc' = "idle"
                  /\ UNCHANGED current_prefix
             ELSE /\ current_prefix' = randomPrefix(mapping, r)
                  /\ pc' = "generate68"
                  /\ UNCHANGED out
  /\ UNCHANGED <<mapping, prefix_len, is_seeded, op, stream>>

\* a plausible slip: generate leaves the seeding to randomPrefix
GenerateSkipsSeed ==
  /\ Running /\ pc = "generate68"
  /\ pc' = "generate72"
  /\ UNCHANGED <<mapping, current_prefix, prefix_len, is_seeded, status, op, out, stream>>

\* generate, lines 68-69: if (!is_seeded) seed()
GenerateSeeds ==
  /\ Running /\ pc = "generate68"
  /\ is_seeded' = TRUE
  /\ pc' = "generate72"
  /\ UNCHANGED <<mapping, current_prefix, prefix_len, status, op, out, stream>>

\* generate, lines 72-75: the words of the window are written, then i < nwords is tested
GenerateWritesPrefix ==
  /\ Running /\ pc = "generate72"
  /\ out' = [i \in 1..prefix_len |-> current_prefix[i]]
  /\ pc' = IF prefix_len < op.nwords THEN "generate77" ELSE "idle"
  /\ UNCHANGED <<mapping, current_prefix, prefix_len, is_seeded, status, op, stream>>

\* generate, lines 76-88 and the test of line 75: random() gives r, one word is written
GenerateDraws(r) ==
  LET m1   == Subscript(mapping, current_prefix)
      suf  == m1[current_prefix]
      w    == suf[(r % Len(suf)) + 1]
      pref == Append(Tail(current_prefix), w)
  IN  /\ Running /\ pc = "generate77"
      /\ mapping' = m1
      /\ out' = Append(out, w)
      /\ IF isValidPrefix(m1, pref)
         THEN /\ current_prefix' = pref
              /\ pc' = IF Len(out') < op.nwords THEN "generate77" ELSE "idle"
         ELSE /\ current_prefix' = current_prefix
              /\ pc' = "idle"
      /\ UNCHANGED <<prefix_len, is_seeded, status, op, stream>>

SeedNext ==
  \/ \E s \in Tokens : Trained /\ Train(s)
  \/ \E force \in BOOLEAN : Trained /\ Seed(force) /\ UNCHANGED <<stream, pc>>
  \/ \E nwords \in 0..MaxGenWords, pref \in Prefixes : BeginGenerate(nwords, pref)
  \/ \E nwords \in 0..MaxGenWords : BeginGenerateRandom(nwords)
  \/ BeginRandomPrefix
  \/ RandomPrefixSeeds
  \/ \E r \in 0..(MaxGenRand - 1) : RandomPrefixDraws(r)
  \/ GenerateSeeds
  \/ GenerateWritesPrefix
  \/ \E r \in 0..(MaxGenRand - 1) : GenerateDraws(r)

SpecSeed == TrainInit /\ [][SeedNext]_vars

(* Query runs: the calls that only report, on chains that were read, trained or reset *)

QueryNext ==
  \/ \E s \in Tokens : Add(s) /\ Size(mapping') <= MaxSucc /\ UNCHANGED <<stream, pc>>
  \/ \E s \in ReadInputs : Read(s) /\ UNCHANGED <<stream, pc>>
  \/ \E len \in 0..MaxLen : PrefixLength(len) /\ UNCHANGED <<stream, pc>>
  \/ \E force \in BOOLEAN : Seed(force) /\ UNCHANGED <<stream, pc>>
  \/ CurrentPrefix /\ UNCHANGED <<stream, pc>>
  \/ \E pref \in Prefixes : IsValidPrefix(pref) /\ UNCHANGED <<stream, pc>>
  \/ PrefixLengthGet /\ UNCHANGED <<stream, pc>>
  \/ IsSeeded /\ UNCHANGED <<stream, pc>>

SpecQuery == Init /\ [][QueryNext]_vars

----------------------------------------------------------------------------
(* Training claims, over SpecTrain *)

\* the window of prefix_len tokens that starts at token i of the stream
Window(i) == SubSeq(stream, i, i + prefix_len - 1)

\* the tokens that follow the windows 1..n equal to key, in stream order
RECURSIVE Followers(_, _)
Followers(key, n) ==
  IF n <= 0 THEN <<>>
  ELSE IF Window(n) = key
       THEN Append(Followers(key, n - 1), stream[n + prefix_len])
       ELSE Followers(key, n - 1)

\* C1: after add(t1), ..., add(tn) on a fresh chain of prefix length L >= 1 the map holds
\* exactly the pairs of a window of size L stepped one token at a time: its keys are the
\* windows that start at 1..n-L, each key's list is the tokens following its windows in
\* order, duplicates kept, and with fewer than L+1 tokens the map is still empty.
C1_SlidingWindow ==
  /\ DOMAIN mapping = {Window(i) : i \in 1..(Len(stream) - prefix_len)}
  /\ \A key \in DOMAIN mapping :
       mapping[key] = Followers(key, Len(stream) - prefix_len)
  /\ (Len(stream) <= prefix_len => mapping = EmptyMap)

\* a window of size 2 has been stepped over a stream in which a prefix repeats
C1_Witness ==
  /\ op.name = "add"
  /\ prefix_len = 2
  /\ Cardinality(DOMAIN mapping) = 2
  /\ \E key \in DOMAIN mapping : Len(mapping[key]) = 2

\* C2 as claimed: for a stream of at least prefix_len tokens the number of entries is
\* the number of distinct windows of length prefix_len in the stream, the last included.
C2_EntriesAreAllWindows ==
  Len(stream) >= prefix_len =>
    Cardinality(DOMAIN mapping)
      = Cardinality({Window(i) : i \in 1..(Len(stream) - prefix_len + 1)})

\* C2 as amended: the number of entries is the number of distinct windows that are
\* followed by a token (those starting at 1..n-prefix_len); the last window of the stream
\* has no successor yet and makes no entry of its own.
C2_EntriesAreFollowedWindows ==
  Len(stream) >= prefix_len =>
    Cardinality(DOMAIN mapping)
      = Cardinality({Window(i) : i \in 1..(Len(stream) - prefix_len)})

\* a repeated prefix: more followed windows than entries
C2_Witness ==
  /\ op.name = "add"
  /\ Len(stream) >= prefix_len + 3
  /\ Cardinality(DOMAIN mapping) = 2
  /\ Cardinality(DOMAIN mapping) < Len(stream) - prefix_len

----------------------------------------------------------------------------
(* Invariants of the operation machine, over Spec *)

\* C3 as claimed: in every state reachable by the chain's operations the window
\* current_prefix holds at most prefix_len tokens.
C3_WindowWithinLength == Len(current_prefix) <= prefix_len

\* C4: in every state reachable by the chain's operations every key of the map has
\* exactly prefix_len tokens.
C4_KeysHaveLength == \A key \in DOMAIN mapping : Len(key) = prefix_len

\* a chain read with prefix length 2 has had a token added at a full window
C4_Witness ==
  /\ op.name = "add"
  /\ prefix_len = 2
  /\ \E key \in DOMAIN mapping : Len(mapping[key]) = 2

\* C5 as claimed: in every reachable state every key of the map has a successor list
\* that is not empty.
C5_NoEmptySuccessors == \A key \in DOMAIN mapping : mapping[key] # <<>>

IsGenerate(o) == o.name \in {"generate", "generateRandom"}

\* C7 as claimed: on a map that is not empty generate writes at most nwords words.
C7_AtMostNwords ==
  (IsGenerate(op) /\ ~op.empty) => Len(out) <= op.nwords

\* C8 as claimed: on an empty map generate (both forms) and randomPrefix end in an
\* explicit failure, without undefined behaviour, and leave the map and the prefix
\* length as they were.
C8_EmptyFailsExplicitly ==
  [][ ((IsGenerate(op') \/ op'.name = "randomPrefix") /\ DOMAIN mapping = {})
        => /\ status' = "running"
           /\ op'.res = "failed"
           /\ mapping' = mapping
           /\ prefix_len' = prefix_len ]_vars

\* the chain every line of the stream gives, the last line taken with or without a
\* line break after it
RECURSIVE readAllLines(_, _)
readAllLines(c, s) ==
  LET nl == find(s, <<"\n">>)
  IN  IF nl = npos THEN (IF s = <<>> THEN c ELSE parseLine(c, s))
      ELSE readAllLines(parseLine(c, substrN(s, 0, nl)), substr(s, nl + 1))

\* C10 as claimed: read takes every well-formed line of the stream, whether or not the
\* stream ends with a line break: the map and the prefix length after read are those
\* its lines give.
C10_ReadTakesEveryLine ==
  op.name = "read" =>
    /\ mapping = readAllLines(Chain(EmptyMap, <<>>, 0), op.input).map
    /\ prefix_len = readAllLines(Chain(EmptyMap, <<>>, 0), op.input).len

\* lines a stream may hold between two line breaks
Lines ==
  { <<>>, A, Text(<<A, A>>), A \o <<" ", ":">> \o A, Text(<<A, Colon>>),
    Text(<<A, Colon, A>>), Text(<<A, A, Colon, A>>), Text(<<Colon, Colon, A>>),
    A \o <<" ", " ", ":", " ">> \o A }

\* the number of tokens, delimited by single spaces, before the first " : " of the line
PrefixTokens(line) ==
  LET cpos == find(line, <<" ", ":", " ">>)
  IN  1 + Cardinality({i \in 1..cpos : line[i] = " "})

\* the line has no separator, or its prefix token count is not the established length
Malformed(line, len) ==
  \/ find(line, <<" ", ":", " ">>) = npos
  \/ len # 0 /\ PrefixTokens(line) # len

\* C11: during read, a line without the separator " : ", or whose prefix token count
\* differs from the established prefix length, leaves the map, the prefix length and
\* the window as they were before the line, and reading goes on with the next line:
\* the rest of the stream is read as if the line were not there.
C11_MalformedLineSkipped ==
  op.name = "read" =>
    \A line \in Lines : Malformed(line, prefix_len) =>
      /\ parseLine(This, line) = This
      /\ \A rest \in ReadInputs :
           readLoop(This, line \o NL \o rest) = readLoop(This, rest)

\* a read has met a line without separator, taken a line of two prefix tokens, skipped
\* a line of one prefix token and taken the line after it
C11_Witness ==
  /\ op.name = "read"
  /\ op.input = A \o NL \o Text(<<A, A, Colon, A>>) \o NL \o Text(<<A, Colon, A>>) \o NL
                  \o Text(<<Colon, A, Colon, A>>) \o NL
  /\ prefix_len = 2
  /\ DOMAIN mapping = {<<A, A>>, <<Colon, A>>}
  /\ current_prefix = <<Colon, A>>

\* what reading the stream s gives when nothing of an earlier state is there: the lines
\* of s taken one by one from no entries, no window and no prefix length
FromNothing(s) == readLoop(Chain(EmptyMap, <<>>, 0), s)

\* C12: read replaces the state of the chain: whatever the map, the prefix length and
\* the window were before, after read they are what the stream alone gives, so two
\* chains in different states that read the same stream end equal; and write leaves
\* the map, the prefix length and the window unchanged.
C12_ReadReplacesWriteKeeps ==
  [][ /\ op'.name = "read" =>
           /\ mapping' = FromNothing(op'.input).map
           /\ prefix_len' = FromNothing(op'.input).len
           /\ current_prefix' = FromNothing(op'.input).cur
      /\ op'.name = "write" =>
           /\ mapping' = mapping
           /\ prefix_len' = prefix_len
           /\ current_prefix' = current_prefix ]_vars

\* a chain constructed with prefix length 1, with entries when read began, has read a
\* stream of two lines and holds those lines' entry, prefix length and window only
C12_Witness ==
  /\ op.name = "read"
  /\ ~op.empty
  /\ op.input = Text(<<A, A, Colon, A>>) \o NL \o Text(<<A, A, Colon, Colon>>) \o NL
  /\ prefix_len = 2
  /\ DOMAIN mapping = {<<A, A>>}
  /\ current_prefix = <<A, A>>

\* C15: the flag is_seeded starts false and, once true, stays true over every operation;
\* seed(force) calls srandom if and only if force is true or the flag was false, and it
\* leaves the flag true: a seed(false) on a seeded generator changes neither the flag nor
\* the generator, a seed(true) always reseeds.
C15_SeedingProtocol ==
  [][ /\ op.name = "chain" => ~is_seeded
      /\ is_seeded => is_seeded'
      /\ op'.name = "seed" =>
           /\ (op'.res = "srandom") <=> (op'.arg \/ ~is_seeded)
           /\ op'.res \in {"srandom", "returned"}
           /\ is_seeded' ]_vars

\* seed(false) has been called on a seeded generator and has not reseeded it
C15_Witness ==
  /\ op.name = "seed"
  /\ op.arg = FALSE
  /\ op.res = "returned"
  /\ is_seeded

\* the pairs a stream of words adds when it starts at an empty window of length len: each
\* window of len words from word i on, with the word after it
RECURSIVE AddPairs(_, _, _, _)
AddPairs(m, words, len, i) ==
  IF i + len > Len(words) THEN m
  ELSE AddPairs(PushBack(m, SubSeq(words, i, i + len - 1), words[i + len]), words, len, i + 1)

\* C16 as claimed: add(stream, resetprefix = true) on a chain in any state completes and
\* adds to the map exactly the pairs the stream gives from an empty window, so that no
\* pair it creates has a token from before the call in its prefix; the entries that
\* were there are kept, with what they held first.
C16_ResetAddsOnlyStreamPairs ==
  [][ (op'.name = "addStream" /\ op'.res = "reset") =>
        /\ status' = "running"
        /\ mapping' = AddPairs(mapping, extract(op'.input), prefix_len, 1) ]_vars

----------------------------------------------------------------------------
(* File claims, over SpecFile *)

\* the number of times x occurs in the sequence q
Count(q, x) == Cardinality({i \in 1..Len(q) : q[i] = x})

SameBag(q, r) == Len(q) = Len(r) /\ \A i \in 1..Len(q) : Count(q, q[i]) = Count(r, q[i])

\* writing the chain and reading what was written gives the same keys, the same
\* multiset of successors for each key, and the same prefix length
RoundTrip ==
  LET c == read(write(mapping))
  IN  /\ DOMAIN c.map = DOMAIN mapping
      /\ \A key \in DOMAIN mapping : SameBag(c.map[key], mapping[key])
      /\ c.len = prefix_len

\* C6 as claimed: for any chain whose tokens hold no space, no line break and not the
\* separator, write followed by read gives the same map and the same prefix length.
C6_RoundTripAnyChain == Running => RoundTrip

\* no key has the word ":" after its first word
NoColonInside == \A key \in DOMAIN mapping : \A i \in 2..Len(key) : key[i] # W(":")

\* C6 as amended: the round trip holds for a chain of prefix length >= 1 whose map is
\* not empty, has no empty successor list, and has no key with the word ":" after the
\* key's first word.
C6_RoundTripAmended ==
  (/\ Running
   /\ prefix_len >= 1
   /\ DOMAIN mapping # {}
   /\ C5_NoEmptySuccessors
   /\ NoColonInside) => RoundTrip

\* a chain of two keys, one with two successors, one key starting with ":", has been
\* written and read back
C6_Witness ==
  /\ op.name = "read"
  /\ op.input = write(mapping)
  /\ prefix_len = 2
  /\ Cardinality(DOMAIN mapping) = 2
  /\ \E key \in DOMAIN mapping : Len(mapping[key]) = 2
  /\ \E key \in DOMAIN mapping : key[1] = W(":")

----------------------------------------------------------------------------
(* Generation claims, over SpecGen *)

\* C9: on a trained chain whose map is not empty, for every word count and every
\* sequence of values of random(), generate with a prefix that is no key writes the same
\* words, makes the same number of draws and ends with the same window as generate
\* without a prefix.
C9_FallbackSame ==
  (Trained /\ DOMAIN mapping # {}) =>
    \A nwords \in 0..MaxGenWords, pref \in Prefixes \ DOMAIN mapping :
      \A rs \in Draws(MaxDraws(nwords, pref), MaxGenRand) :
        generate(This, nwords, pref, rs) = generateRandom(This, nwords, rs)

\* generate with a prefix that is no key has written a full walk from a random start
C9_Witness ==
  /\ op.name = "generate"
  /\ ~op.valid
  /\ ~op.empty
  /\ op.nwords = MaxGenWords
  /\ Len(out) = MaxGenWords
  /\ Cardinality(DOMAIN mapping) >= 2

\* C13: from a starting prefix that is a key of a map that is not empty, with
\* nwords > prefix_len, generate writes the tokens of that prefix first; every later
\* word is in the successor list of the prefix_len words written just before it, which
\* are a key (the window at that step); the walk ends when nwords words are written or
\* the candidate (the last prefix_len words written) is no key, and not before; the
\* window it ends with is the last key it reached.
C13_WalkFollowsSuccessors ==
  (Trained /\ DOMAIN mapping # {}) =>
    \A nwords \in (prefix_len + 1)..MaxGenWords, pref \in DOMAIN mapping :
      \A rs \in Draws(MaxDraws(nwords, pref), MaxGenRand) :
        LET r == generate(This, nwords, pref, rs)
            n == Len(r.out)
            Before(j) == SubSeq(r.out, j - prefix_len, j - 1)
            Last == SubSeq(r.out, n - prefix_len + 1, n)
        IN  /\ prefix_len < n /\ n <= nwords
            /\ SubSeq(r.out, 1, prefix_len) = pref
            /\ \A j \in (prefix_len + 1)..n :
                 /\ Before(j) \in DOMAIN mapping
                 /\ \E x \in 1..Len(mapping[Before(j)]) : mapping[Before(j)][x] = r.out[j]
            /\ n < nwords => Last \notin DOMAIN mapping
            /\ r.cur \in DOMAIN mapping
            /\ r.cur = IF Last \in DOMAIN mapping THEN Last ELSE Before(n)

\* the chain of one entry with a prefix of two words: generate from that prefix with
\* nwords = 3 has written the prefix and one successor and stopped at a candidate that
\* is no key
C13_Witness ==
  /\ op.name = "generate"
  /\ op.valid
  /\ op.nwords = 3
  /\ prefix_len = 2
  /\ Len(out) = 3
  /\ DOMAIN mapping = {SubSeq(out, 1, 2)}
  /\ SubSeq(out, 2, 3) \notin DOMAIN mapping
  /\ current_prefix = SubSeq(out, 1, 2)

\* the keys k_0, ..., k_{size-1} of the map in ascending order: k_n is the key with
\* exactly n keys below it
KeyAt(n) ==
  CHOOSE key \in DOMAIN mapping :
    Cardinality({other \in DOMAIN mapping : PrefixLess(other, key)}) = n

\* C17: on a map that is not empty, with keys k_0, ..., k_{size-1} in enumeration order,
\* randomPrefix with the drawn value r returns k_i for i = r mod size, which is a key,
\* and changes neither the map nor the window nor the prefix length.
C17_RandomPrefixPicksKey ==
  [][ (op'.name = "randomPrefix" /\ DOMAIN mapping # {}) =>
        /\ out' = KeyAt(op'.arg % Cardinality(DOMAIN mapping))
        /\ out' \in DOMAIN mapping
        /\ mapping' = mapping
        /\ current_prefix' = current_prefix
        /\ prefix_len' = prefix_len ]_vars

\* randomPrefix on a map of three keys drew 4, beyond the number of keys, and returned
\* the middle key
C17_Witness ==
  /\ op.name = "randomPrefix"
  /\ Cardinality(DOMAIN mapping) = 3
  /\ op.arg = 4
  /\ out = KeyAt(1)

\* C19: on a map that is not empty, generate with any starting prefix, a key or not, and
\* any word count leaves the map (its keys and every successor list) and the prefix
\* length unchanged; only the window and the flag is_seeded may change, and when it
\* returns the window is a key of the map.
C19_GenerateReadOnly ==
  [][ (IsGenerate(op') /\ DOMAIN mapping # {}) =>
        /\ mapping' = mapping
        /\ prefix_len' = prefix_len
        /\ status' = "running"
        /\ current_prefix' \in DOMAIN mapping' ]_vars

\* generate with a prefix that is no key, asked for three words on a map of one key
\* of one word, has stopped after two words at a candidate that is no key
C19_Witness ==
  /\ op.name = "generate"
  /\ ~op.valid
  /\ ~op.empty
  /\ op.nwords = 3
  /\ Len(out) = 2
  /\ Cardinality(DOMAIN mapping) = 1
  /\ current_prefix \in DOMAIN mapping

----------------------------------------------------------------------------
(* Query claims, over SpecQuery *)

\* C18: prefixLength(len) from any state leaves the map empty, the window empty and the
\* prefix length equal to len, and returns len; prefixLength() returns the prefix length
\* and changes nothing.
C18_SetterResetsGetterKeeps ==
  [][ /\ op'.name = "prefixLengthSet" =>
           /\ mapping' = EmptyMap
           /\ current_prefix' = <<>>
           /\ prefix_len' = op'.arg
           /\ out' = <<op'.arg>>
      /\ op'.name = "prefixLength" =>
           /\ out' = <<prefix_len>>
           /\ UNCHANGED <<mapping, current_prefix, prefix_len, is_seeded, status>> ]_vars

\* prefixLength(0) has been called on a chain that held entries
C18_Witness ==
  /\ op.name = "prefixLengthSet"
  /\ ~op.empty
  /\ op.arg = 0
  /\ prefix_len = 0
  /\ mapping = EmptyMap
  /\ current_prefix = <<>>

----------------------------------------------------------------------------
(* Seeding claims, over SpecSeed *)

\* C14: in every execution of generate (both forms) and randomPrefix, whenever the call
\* is at a statement that draws from random() (line 182 or line 77), the flag is_seeded
\* is already true.
C14_SeededBeforeDraw ==
  pc \in {"randomPrefix182", "generate77"} => is_seeded

\* generate with a prefix that is a key, which never enters randomPrefix, is about to
\* draw its second word
C14_Witness ==
  /\ pc = "generate77"
  /\ op.name = "generate"
  /\ op.valid
  /\ Len(out) = prefix_len + 1
  /\ is_seeded

====
